---- MODULE Spec2Model ----
(***************************************************************************)
(* A model of litstudy's source adapters (sources/bibtex.py,               *)
(* sources/scopus_csv.py, sources/springer.py): a parsed file is loaded    *)
(* into a document collection and the documents' accessors are read.       *)
(* Strings are TLC strings, read character by character; Python values     *)
(* (None, str, int, list, a raised exception) are tagged records.          *)
(***************************************************************************)
EXTENDS Integers, Sequences, FiniteSets, TLC

VARIABLES given, adapter, file, pc, docs, out

vars == <<given, adapter, file, pc, docs, out>>

(***************************************************************************)
(* Python values.                                                          *)
(***************************************************************************)
None == [none |-> TRUE]
Str(s) == [str |-> s]
Num(n) == [int |-> n]
List(l) == [list |-> l]
Raise(e) == [exc |-> e]
Date(y, m, d) == [year |-> y, month |-> m, day |-> d]

IsStr(v) == DOMAIN v = {"str"}
IsInt(v) == DOMAIN v = {"int"}
IsList(v) == DOMAIN v = {"list"}
IsRaise(v) == DOMAIN v = {"exc"}

\* Python truthiness of None and of a str: `if val`, `val or None`.
Truthy(v) == IsStr(v) /\ v.str # ""

\* dict.get(key) and dict.get(key, default).
Get(entry, key) == IF key \in DOMAIN entry THEN entry[key] ELSE None
GetDefault(entry, key, default) == IF key \in DOMAIN entry THEN entry[key] ELSE Str(default)

(***************************************************************************)
(* Characters and the str methods the adapters call.                       *)
(***************************************************************************)
Ch(s, i) == IF i \in 1..Len(s) THEN SubSeq(s, i, i) ELSE ""
From(s, i) == SubSeq(s, i, Len(s))
CharSet(s) == {Ch(s, i) : i \in 1..Len(s)}

UpperChars == "ABCDEFGHIJKLMNOPQRSTUVWXYZ"
LowerChars == "abcdefghijklmnopqrstuvwxyz"
DigitChars == "0123456789"
UpperSet == CharSet(UpperChars)
LowerSet == CharSet(LowerChars)
DigitSet == CharSet(DigitChars)
\* What str.strip() and int() take for white space.
Whitespace == {" ", "\t", "\n", "\r"}

isupper(c) == c \in UpperSet
islower(c) == c \in LowerSet

LowerOf == [c \in UpperSet |-> Ch(LowerChars, CHOOSE i \in 1..Len(UpperChars) : Ch(UpperChars, i) = c)]

RECURSIVE lower(_)
lower(s) ==
  IF s = "" THEN ""
  ELSE (IF Ch(s, 1) \in UpperSet THEN LowerOf[Ch(s, 1)] ELSE Ch(s, 1)) \o lower(From(s, 2))

RECURSIVE lstrip(_, _)
lstrip(s, chars) ==
  IF s # "" /\ Ch(s, 1) \in chars THEN lstrip(From(s, 2), chars) ELSE s

RECURSIVE rstrip(_, _)
rstrip(s, chars) ==
  IF s # "" /\ Ch(s, Len(s)) \in chars THEN rstrip(SubSeq(s, 1, Len(s) - 1), chars) ELSE s

strip(s) == rstrip(lstrip(s, Whitespace), Whitespace)

startswith(s, prefix) == Len(prefix) <= Len(s) /\ SubSeq(s, 1, Len(prefix)) = prefix

MatchesAt(s, sep, i) == i + Len(sep) - 1 <= Len(s) /\ SubSeq(s, i, i + Len(sep) - 1) = sep

\* The first position at or after `from` where one of `seps` starts; 0 when none.
FindAny(s, seps, from) ==
  LET hits == {i \in from..Len(s) : \E sep \in seps : MatchesAt(s, sep, i)}
  IN IF hits = {} THEN 0 ELSE CHOOSE i \in hits : \A j \in hits : i <= j

\* str.split(sep) for seps = {sep}; re.split of an alternation of literals.
RECURSIVE split(_, _)
split(s, seps) ==
  LET i == FindAny(s, seps, 1)
  IN IF i = 0 THEN <<s>>
     ELSE LET sep == CHOOSE x \in seps : MatchesAt(s, x, i)
          IN <<SubSeq(s, 1, i - 1)>> \o split(From(s, i + Len(sep)), seps)

\* The length of the longest run of characters of `class` starting at i.
RECURSIVE RunLen(_, _, _)
RunLen(s, class, i) ==
  IF i <= Len(s) /\ Ch(s, i) \in class THEN 1 + RunLen(s, class, i + 1) ELSE 0

\* re.split("[class]+", s): cut at every maximal run of `class` characters.
RECURSIVE re_split_runs(_, _)
re_split_runs(s, class) ==
  LET hits == {i \in 1..Len(s) : Ch(s, i) \in class}
  IN IF hits = {} THEN <<s>>
     ELSE LET i == CHOOSE x \in hits : \A j \in hits : x <= j
          IN <<SubSeq(s, 1, i - 1)>> \o re_split_runs(From(s, i + RunLen(s, class, i)), class)

\* re.sub("[class]+", repl, s): every maximal run of `class` becomes `repl`.
RECURSIVE re_sub_runs(_, _, _)
re_sub_runs(s, class, repl) ==
  IF s = "" THEN ""
  ELSE IF Ch(s, 1) \in class
       THEN repl \o re_sub_runs(From(s, 1 + RunLen(s, class, 1)), class, repl)
       ELSE Ch(s, 1) \o re_sub_runs(From(s, 2), class, repl)

RECURSIVE join(_)
join(parts) == IF parts = <<>> THEN "" ELSE Head(parts) \o join(Tail(parts))

\* The value of a string of decimal digits and underscores.
RECURSIVE DigitsValue(_, _)
DigitsValue(s, acc) ==
  IF s = "" THEN acc
  ELSE IF Ch(s, 1) = "_" THEN DigitsValue(From(s, 2), acc)
  ELSE DigitsValue(From(s, 2),
         10 * acc + (CHOOSE d \in 0..9 : Ch(DigitChars, d + 1) = Ch(s, 1)))

\* int(str): white space around, an optional sign, digits with single underscores
\* between them; anything else raises ValueError.
int(v) ==
  IF ~IsStr(v) THEN Raise("TypeError")
  ELSE LET t == strip(v.str)
           signed == Ch(t, 1) \in {"+", "-"}
           body == IF signed THEN From(t, 2) ELSE t
           wellformed ==
             /\ body # ""
             /\ \A i \in 1..Len(body) : Ch(body, i) \in DigitSet \cup {"_"}
             /\ Ch(body, 1) # "_" /\ Ch(body, Len(body)) # "_"
             /\ \A i \in 1..(Len(body) - 1) : ~(Ch(body, i) = "_" /\ Ch(body, i + 1) = "_")
       IN IF ~wellformed THEN Raise("ValueError")
          ELSE Num(IF Ch(t, 1) = "-" THEN 0 - DigitsValue(body, 0) ELSE DigitsValue(body, 0))

(***************************************************************************)
(* sources/bibtex.py                                                       *)
(***************************************************************************)
DoiRegistrantMin == 4
DoiRegistrantMax == 9
DoiSuffixMin == 5
DoiSuffixChars == CharSet("-._;()/:") \cup LowerSet \cup UpperSet \cup DigitSet

\* The end of the match of 10[.][0-9]{4,9}/[-._;()/:a-zA-Z0-9]{5,} starting at i;
\* 0 when the pattern does not match there.
DoiMatchEnd(s, i) ==
  LET d == RunLen(s, DigitSet, i + 3)
      n == RunLen(s, DoiSuffixChars, i + 4 + d)
  IN IF /\ MatchesAt(s, "10.", i)
        /\ d >= DoiRegistrantMin /\ d <= DoiRegistrantMax
        /\ Ch(s, i + 3 + d) = "/"
        /\ n >= DoiSuffixMin
     THEN i + 3 + d + n
     ELSE 0

\* find_doi's inner extract(val): re.search takes the leftmost match.
extract(val) ==
  IF IsStr(val)
  THEN LET s == val.str
           hits == {i \in 1..Len(s) : DoiMatchEnd(s, i) # 0}
       IN IF hits = {} THEN None
          ELSE LET i == CHOOSE x \in hits : \A j \in hits : x <= j
               IN Str(SubSeq(s, i, DoiMatchEnd(s, i)))
  ELSE None

DoiKeys == <<"doi", "link", "url", "howpublished">>
DoiPrefix == "https://doi.org/"

\* The for loop of find_doi: the first key whose value yields a match.
RECURSIVE ScanKeys(_, _)
ScanKeys(entry, keys) ==
  IF keys = <<>> THEN None
  ELSE LET doi == IF Head(keys) \in DOMAIN entry THEN extract(entry[Head(keys)]) ELSE None
       IN IF Truthy(doi) THEN doi ELSE ScanKeys(entry, Tail(keys))

\* Mutant: the URL prefix is kept.
RemovePrefix_kept(doi) == doi

RemovePrefix(doi) ==
  IF startswith(doi, DoiPrefix) THEN From(doi, Len(DoiPrefix) + 1) ELSE doi

find_doi(entry) ==
  LET got == GetDefault(entry, "doi", "")
  IN IF ~IsStr(got) THEN Raise("AttributeError")
     ELSE LET result == strip(got.str)
              doi == IF result # "" THEN Str(result) ELSE ScanKeys(entry, DoiKeys)
          IN IF ~Truthy(doi) THEN None ELSE Str(RemovePrefix(doi.str))

MONTHS ==
  [jan |-> 1, january |-> 1, feb |-> 2, feburary |-> 2, mar |-> 3, march |-> 3,
   apr |-> 4, april |-> 4, may |-> 5, jun |-> 6, june |-> 6, jul |-> 7, july |-> 7,
   aug |-> 8, august |-> 8, sep |-> 9, september |-> 9, oct |-> 10, october |-> 10,
   nov |-> 11, november |-> 11, dec |-> 12, december |-> 12]

\* Mutant: only the lower-case separator splits.
AuthorSeparators_lowercase == {" and "}

AuthorSeparators == {" and ", " And ", " AND "}

\* One name of the author list: "Last, First" becomes "Last, F." followed by the
\* parts between the second and the last; an empty second part is an IndexError.
ReorderName(author) ==
  LET parts == split(strip(author), {", "})
  IN IF Len(parts) > 1
     THEN IF parts[2] = "" THEN Raise("IndexError")
          ELSE Str(parts[1] \o ", " \o Ch(parts[2], 1) \o "."
                   \o join(SubSeq(parts, 3, Len(parts) - 1)))
     ELSE Str(author)

BibDocument_authors(entry) ==
  LET content == Get(entry, "author")
  IN IF ~Truthy(content) THEN None
     ELSE LET collapsed == re_sub_runs(content.str, Whitespace, " ")
              split_names == split(collapsed, AuthorSeparators)
              names == IF split_names[Len(split_names)] = "others"
                       THEN SubSeq(split_names, 1, Len(split_names) - 1)
                       ELSE split_names
              new_authors == [i \in 1..Len(names) |-> ReorderName(names[i])]
          IN IF \E i \in 1..Len(names) : IsRaise(new_authors[i])
             THEN Raise("IndexError")
             ELSE List([i \in 1..Len(names) |-> strip(new_authors[i].str)])

BibDocument_publication_year(entry) ==
  LET year == IF "year" \in DOMAIN entry THEN int(entry["year"]) ELSE Raise("KeyError")
  IN IF IsRaise(year) THEN None
     ELSE IF year.int < 100 THEN Num(year.int + 1900) ELSE year

BibDocument_publication_month(entry) ==
  LET got == GetDefault(entry, "month", "")
  IN IF ~IsStr(got) THEN Raise("AttributeError")
     ELSE LET key == lower(got.str)
          IN IF key \in DOMAIN MONTHS THEN Num(MONTHS[key]) ELSE None

MINYEAR == 1
MAXYEAR == 9999

\* datetime.date(year, month, day) for a month of 1..12 and day 1.
date(year, month, day) ==
  IF year < MINYEAR \/ year > MAXYEAR THEN Raise("ValueError") ELSE Date(year, month, day)

BibDocument_publication_date(entry) ==
  LET year == BibDocument_publication_year(entry)
      got == BibDocument_publication_month(entry)
      month == IF IsInt(got) THEN got.int ELSE 1
  IN IF IsRaise(got) THEN got
     ELSE IF year = None THEN None
     ELSE date(year.int, month, 1)

KeywordSeparators == {";", ",", "\n", "\r"}

BibDocument_keywords(entry) ==
  LET content == Get(entry, "keywords")
  IN IF ~Truthy(content) THEN None
     ELSE LET words == SelectSeq(re_split_runs(content.str, KeywordSeparators),
                                 LAMBDA w : w # "")
          IN List([i \in 1..Len(words) |-> lower(strip(words[i]))])

\* BibDocument.__init__: the identifier is derived once from the raw entry.
BibDocument(entry) ==
  LET doi == find_doi(entry)
  IN IF IsRaise(doi) THEN doi
     ELSE [identifier |-> [title |-> entry["title"], doi |-> doi, pubmed |-> Get(entry, "pmid")],
           entry |-> entry]

\* The list a comprehension over constructors builds; the first exception a
\* constructor raises propagates.
Constructed(made) ==
  IF \E i \in 1..Len(made) : IsRaise(made[i])
  THEN made[CHOOSE i \in 1..Len(made) : IsRaise(made[i]) /\ \A j \in 1..(i - 1) : ~IsRaise(made[j])]
  ELSE List(made)

load_bibtex(entries) ==
  LET titled == SelectSeq(entries, LAMBDA e : Truthy(Get(e, "title")))
  IN Constructed([i \in 1..Len(titled) |-> BibDocument(titled[i])])

(***************************************************************************)
(* sources/springer.py                                                     *)
(***************************************************************************)
\* The accumulated name is closed: "First ... Last" becomes "Last, F."; a name
\* without a space is kept; the IndexError of an empty first token is caught and
\* the name is lost.
\* Mutant: the accumulated name is kept as it is, never reordered.
FinalizeName_verbatim(names, current_name) == Append(names, current_name)

FinalizeName(names, current_name) ==
  LET current_name_split == split(current_name, {" "})
  IN IF Len(current_name_split) > 1
     THEN IF current_name_split[1] = "" THEN names
          ELSE Append(names, current_name_split[Len(current_name_split)] \o ", "
                             \o Ch(current_name_split[1], 1) \o ".")
     ELSE Append(names, current_name)

\* The loop of extract_author_names from the character at position p (Python's
\* index i is p - 1).
RECURSIVE ScanNames(_, _, _, _)
ScanNames(author_string, p, names, current_name) ==
  IF p > Len(author_string) THEN FinalizeName(names, current_name)
  ELSE LET char == Ch(author_string, p)
       IN IF isupper(char) /\ p - 1 > 1 /\ islower(Ch(author_string, p - 1))
          THEN ScanNames(author_string, p + 1, FinalizeName(names, current_name), char)
          ELSE ScanNames(author_string, p + 1, names, current_name \o char)

extract_author_names(author_string) ==
  IF ~IsStr(author_string) THEN Raise("TypeError")
  ELSE List(ScanNames(author_string.str, 1, <<>>, ""))

\* Mutant: the affiliations are split at the bare semicolon.
AffiliationSeparator_semicolon == ";"

AffiliationSeparator == "; "

SpringerAuthor(name, affiliation) == [name |-> name, affiliation |-> affiliation]

SpringerAuthor_affiliations(author) ==
  IF ~Truthy(author.affiliation) \/ author.affiliation = Str("NA") THEN None
  ELSE List(<<author.affiliation.str>>)

\* SpringerDocument.title, read by the warning of authors.
SpringerDocument_title(entry) ==
  IF "Item Title" \in DOMAIN entry THEN entry["Item Title"] ELSE Raise("KeyError")

SpringerDocument_authors(entry) ==
  LET authors == extract_author_names(Get(entry, "Authors"))
      got == GetDefault(entry, "Author Affiliations", "")
  IN IF IsRaise(authors) THEN authors
     ELSE IF ~IsStr(got) THEN Raise("AttributeError")
     ELSE LET names == authors.list
              tokens == split(got.str, {AffiliationSeparator})
              mismatch == Len(names) # Len(tokens)
              affs == IF mismatch THEN [i \in 1..Len(names) |-> None]
                      ELSE [i \in 1..Len(names) |-> Str(tokens[i])]
          IN IF mismatch /\ IsRaise(SpringerDocument_title(entry))
             THEN SpringerDocument_title(entry)
             ELSE List([i \in 1..Len(names) |-> SpringerAuthor(strip(names[i]), affs[i])])

SpringerDocument(entry) ==
  [identifier |-> [title |-> Get(entry, "Item Title"),
                   doi |-> IF Truthy(Get(entry, "Item DOI")) THEN Get(entry, "Item DOI") ELSE None],
   entry |-> entry]

load_springer_csv(lines) ==
  Constructed([i \in 1..Len(lines) |-> SpringerDocument(lines[i])])

(***************************************************************************)
(* sources/scopus_csv.py                                                   *)
(***************************************************************************)
ScopusCsvAuthor(name, affiliation) == [name |-> name, affiliation |-> affiliation]

ScopusCsvDocument_authors(entry) ==
  LET auths == Get(entry, "Authors")
  IN IF ~IsStr(auths) THEN Raise("AttributeError")
     ELSE LET new_auths == split(auths.str, {";"})
          IN List([i \in 1..Len(new_auths) |->
                    ScopusCsvAuthor(strip(split(new_auths[i], {"."})[1]), Str(""))])

ScopusCsvDocument_publication_year(entry) ==
  LET year == Get(entry, "Year")
  IN IF ~Truthy(year) THEN None
     ELSE IF IsRaise(int(year)) THEN None ELSE int(year)

ScopusCsvDocument_citation_count(entry) ==
  LET citation_count == Get(entry, "Cited by")
  IN IF ~Truthy(citation_count) THEN None ELSE int(citation_count)

ScopusCsvDocument(entry) ==
  [identifier |-> [title |-> Get(entry, "Title"), doi |-> Get(entry, "DOI"),
                   pubmed |-> Get(entry, "PubMed ID"), eid |-> Get(entry, "EID")],
   entry |-> entry]

load_scopus_csv(lines) ==
  Constructed([i \in 1..Len(lines) |-> ScopusCsvDocument(lines[i])])

(***************************************************************************)
(* The files under test.  `given` describes how the raw field values of    *)
(* the parsed file were put together; `file` holds the raw entries the     *)
(* format parser hands to the loader.                                      *)
(***************************************************************************)
Missing == [missing |-> TRUE]
EmptyDict == [k \in {} |-> None]
Field(key, val) == IF val = Missing THEN EmptyDict ELSE key :> val

\* All sequences over S of length lo..hi.
SeqsOf(S, lo, hi) == UNION {[1..n -> S] : n \in lo..hi}

MaxEntries == 3

BibTitles == {Missing, Str(""), Str("Deep Learning")}
CsvTitles == {Missing, None, Str(""), Str("Deep Learning")}
TitleKey == [bibtex |-> "title", scopus |-> "Title", springer |-> "Item Title"]

GivenTitles ==
  {[kind |-> "titles", adapter |-> a, titles |-> t] :
     a \in {"bibtex"}, t \in SeqsOf(BibTitles, 0, MaxEntries)}
  \cup
  {[kind |-> "titles", adapter |-> a, titles |-> t] :
     a \in {"scopus", "springer"}, t \in SeqsOf(CsvTitles, 0, MaxEntries)}

\* A text around a DOI-like core: pre 10.<reg>/<suf> post.
DoiText(t) == t.pre \o "10." \o t.reg \o "/" \o t.suf \o t.post
ScanTexts ==
  [pre : {"", "see ", DoiPrefix}, reg : {"123", "1000", "123456789", "1234567890"},
   suf : {"xyz1", "xyz123", "a(b)-c_d"}, post : {"", " for details"}]
ScanSmall ==
  {Missing,
   [pre |-> "see ", reg |-> "1000", suf |-> "xyz123", post |-> " for details"],
   [pre |-> DoiPrefix, reg |-> "123456789", suf |-> "a(b)-c_d", post |-> ""],
   [pre |-> "", reg |-> "123", suf |-> "xyz123", post |-> ""],
   [pre |-> "see ", reg |-> "1000", suf |-> "xyz1", post |-> " for details"]}
\* A doi field: lpad prefix core rpad.
DoiFields ==
  [lpad : {"", " "}, prefix : {"", DoiPrefix}, core : {"10.1109/ABC.2020.123", "n/a"},
   rpad : {"", "\n"}]
BlankDois == {Missing, [lpad |-> "", prefix |-> "", core |-> "", rpad |-> ""],
              [lpad |-> " ", prefix |-> "", core |-> "", rpad |-> ""],
              [lpad |-> "\t", prefix |-> "", core |-> "", rpad |-> "\n"]}
DoiFieldText(d) == d.lpad \o d.prefix \o d.core \o d.rpad

GivenDois ==
  {[kind |-> "doi", adapter |-> "bibtex", doi |-> d, link |-> Missing, url |-> u,
    howpublished |-> Missing] : d \in DoiFields, u \in ScanSmall}
  \cup
  {[kind |-> "doi", adapter |-> "bibtex", doi |-> d, link |-> l, url |-> u,
    howpublished |-> h] : d \in BlankDois, l \in ScanSmall, u \in ScanSmall, h \in ScanSmall}
  \cup
  {[kind |-> "doi", adapter |-> "bibtex", doi |-> Missing, link |-> Missing, url |-> u,
    howpublished |-> Missing] : u \in ScanTexts}

\* BibTeX author lists: names (each the parts that ", " joins) joined by
\* separators, optionally ending in a separator and "others".
MaxNames == 2
BibNames == {<<"Smith", "John">>, <<"Knuth">>, <<"Doe", "Jane", "Q">>,
             <<"van Dyck", "A.", "B.", "C.">>}
BibSeparators == {" and ", " AND ", " aNd ", "\n And  "}

RECURSIVE JoinWith(_, _)
JoinWith(parts, sep) ==
  IF Len(parts) = 0 THEN ""
  ELSE IF Len(parts) = 1 THEN parts[1]
  ELSE parts[1] \o sep \o JoinWith(Tail(parts), sep)

RECURSIVE AuthorText(_, _)
AuthorText(names, seps) ==
  IF Len(names) = 1 THEN JoinWith(names[1], ", ")
  ELSE JoinWith(names[1], ", ") \o seps[1] \o AuthorText(Tail(names), Tail(seps))

AuthorFieldText(g) ==
  AuthorText(g.names, g.seps) \o (IF g.others = Missing THEN "" ELSE g.others.str \o "others")

GivenAuthors ==
  UNION {[kind : {"author"}, adapter : {"bibtex"}, names : [1..n -> BibNames],
          seps : [1..(n - 1) -> BibSeparators],
          others : {Missing, Str(" and "), Str(" aNd ")}] : n \in 1..MaxNames}

\* Author fields that are missing, empty or not of the adapter's form.
RawAuthors ==
  [bibtex |-> {Missing, Str(""), Str("Smith, , John"), Str("others")},
   scopus |-> {Missing, None, Str(""), Str(";"), Str("Smith J.; Doe J.A.")},
   springer |-> {Missing, None, Str(""), Str(" Smith"), Str("Ronald McDonald"),
                 Str("aBob Lee")}]
GivenRawAuthors ==
  UNION {[kind : {"rawauthors"}, adapter : {a}, authors : RawAuthors[a]] :
           a \in {"bibtex", "scopus", "springer"}}

\* Springer author lists: people written first, glue, last and put one after
\* the other with nothing between them; affiliations joined by a separator.
MaxPeople == 2
MaxAffs == 2
People == {[first |-> "John", glue |-> " ", last |-> "Smith"],
           [first |-> "Jane", glue |-> " ", last |-> "Doe"],
           [first |-> "John", glue |-> "", last |-> "Smith"],
           [first |-> "Jane", glue |-> "", last |-> "Doe"]}
AffTokens == {"MIT", "NA", ""}
AffSeparators == {"; ", ";"}

RECURSIVE PeopleText(_)
PeopleText(people) ==
  IF people = <<>> THEN ""
  ELSE people[1].first \o people[1].glue \o people[1].last \o PeopleText(Tail(people))

AffChoices ==
  {Missing, None}
  \cup UNION {[tokens : [1..n -> AffTokens], sep : AffSeparators] : n \in 1..MaxAffs}
AffText(a) == JoinWith(a.tokens, a.sep)

GivenPeople ==
  UNION {[kind : {"people"}, adapter : {"springer"}, title : {Str("T")},
          people : [1..n -> People], affs : AffChoices] : n \in 1..MaxPeople}
  \cup
  [kind : {"people"}, adapter : {"springer"}, title : {Missing},
   people : [1..1 -> People], affs : AffChoices]

\* Keyword fields: tokens joined by one separator.
MaxKeywords == 2
KeywordTokens == {[raw |-> "Deep Learning", norm |-> "deep learning"],
                  [raw |-> " graphs ", norm |-> "graphs"],
                  [raw |-> " ", norm |-> ""],
                  [raw |-> "", norm |-> ""]}
KeywordJoints == {";", ", ", "\n", ";\r\n"}
GivenKeywords ==
  UNION {[kind : {"keywords"}, adapter : {"bibtex"}, present : {TRUE},
          tokens : [1..n -> KeywordTokens], sep : KeywordJoints] : n \in 0..MaxKeywords}
  \cup {[kind |-> "keywords", adapter |-> "bibtex", present |-> FALSE, tokens |-> <<>>,
         sep |-> ";"]}
KeywordText(g) == JoinWith([i \in 1..Len(g.tokens) |-> g.tokens[i].raw], g.sep)

\* Month fields: the English month names, their three-letter abbreviations and
\* the misspelling of the table, in three letter cases; and other values.
EnglishMonths ==
  <<"january", "february", "march", "april", "may", "june", "july", "august",
    "september", "october", "november", "december">>
UpperOf == [c \in LowerSet |-> Ch(UpperChars, CHOOSE i \in 1..Len(LowerChars) : Ch(LowerChars, i) = c)]
RECURSIVE InCase(_, _)
InCase(s, case) ==
  IF s = "" \/ case = "lower" THEN s
  ELSE (IF Ch(s, 1) \in LowerSet THEN UpperOf[Ch(s, 1)] ELSE Ch(s, 1))
       \o InCase(From(s, 2), IF case = "title" THEN "lower" ELSE case)
MonthName(m) ==
  CASE m.form = "full" -> EnglishMonths[m.index]
    [] m.form = "abbr" -> SubSeq(EnglishMonths[m.index], 1, 3)
    [] m.form = "misspelt" -> "feburary"
    [] m.form = "other" -> m.text
MonthText(m) == InCase(MonthName(m), m.case)
MonthChoices ==
  {Missing}
  \cup [form : {"full", "abbr"}, index : 1..12, case : {"lower", "title", "upper"}]
  \cup [form : {"misspelt"}, index : {2}, case : {"lower", "title", "upper"}]
  \cup [form : {"other"}, index : {0}, case : {"lower"},
        text : {"", "foo", " jan", "13", "janu"}]
GivenMonths == [kind : {"month"}, adapter : {"bibtex"}, month : MonthChoices]

\* Numeric fields: lpad sign digits rpad, or a text that is no number.
RECURSIVE Decimal(_)
Decimal(n) ==
  IF n < 10 THEN Ch(DigitChars, n + 1) ELSE Decimal(n \div 10) \o Ch(DigitChars, (n % 10) + 1)
Numbers ==
  [lpad : {"", " "}, sign : {"", "-", "+"}, n : {0, 7, 99, 100, 2003, 9999, 10000},
   rpad : {"", "\n"}]
NotNumbers == {[junk |-> ""], [junk |-> "abc"], [junk |-> "19x9"], [junk |-> "1 9"],
               [junk |-> "-"]}
IsNumber(x) == "n" \in DOMAIN x
NumberText(x) == IF IsNumber(x) THEN x.lpad \o x.sign \o Decimal(x.n) \o x.rpad ELSE x.junk
NumberValue(x) == IF x.sign = "-" THEN 0 - x.n ELSE x.n
GivenNumbers ==
  [kind : {"number"}, adapter : {"bibtex"}, number : {Missing} \cup Numbers \cup NotNumbers,
   month : {Missing, [form |-> "abbr", index |-> 3, case |-> "title"],
            [form |-> "other", index |-> 0, case |-> "lower", text |-> "foo"]}]
  \cup
  [kind : {"number"}, adapter : {"scopus"},
   number : {Missing, None} \cup Numbers \cup NotNumbers, month : {Missing}]

Givens ==
  GivenTitles \cup GivenDois \cup GivenAuthors \cup GivenRawAuthors \cup GivenPeople
  \cup GivenKeywords \cup GivenMonths \cup GivenNumbers

\* The raw value of a described text: none for no key, None for a short row.
DoiFieldValue(d) == IF d = Missing THEN Missing ELSE Str(DoiFieldText(d))
DoiTextValue(t) == IF t = Missing THEN Missing ELSE Str(DoiText(t))
AffValue(a) == IF a \in {Missing, None} THEN a ELSE Str(AffText(a))
MonthValue(m) == IF m = Missing THEN Missing ELSE Str(MonthText(m))
NumberValueText(x) == IF x \in {Missing, None} THEN x ELSE Str(NumberText(x))

\* The raw entries of the file `g` describes.
FileOf(g) ==
  CASE g.kind = "titles" ->
         [i \in 1..Len(g.titles) |->
            Field(TitleKey[g.adapter], g.titles[i]) @@ ("ID" :> Num(i))]
    [] g.kind = "doi" ->
         <<("title" :> Str("T")) @@ Field("doi", DoiFieldValue(g.doi))
           @@ Field("link", DoiTextValue(g.link)) @@ Field("url", DoiTextValue(g.url))
           @@ Field("howpublished", DoiTextValue(g.howpublished))>>
    [] g.kind = "author" ->
         <<("title" :> Str("T")) @@ ("author" :> Str(AuthorFieldText(g)))>>
    [] g.kind = "rawauthors" ->
         <<(TitleKey[g.adapter] :> Str("T"))
           @@ Field(IF g.adapter = "bibtex" THEN "author" ELSE "Authors", g.authors)>>
    [] g.kind = "people" ->
         <<Field("Item Title", g.title) @@ ("Authors" :> Str(PeopleText(g.people)))
           @@ Field("Author Affiliations", AffValue(g.affs))>>
    [] g.kind = "keywords" ->
         <<("title" :> Str("T"))
           @@ (IF g.present THEN "keywords" :> Str(KeywordText(g)) ELSE EmptyDict)>>
    [] g.kind = "month" ->
         <<("title" :> Str("T")) @@ Field("month", MonthValue(g.month))>>
    [] g.kind = "number" ->
         IF g.adapter = "bibtex"
         THEN <<("title" :> Str("T")) @@ Field("year", NumberValueText(g.number))
                @@ Field("month", MonthValue(g.month))>>
         ELSE <<("Title" :> Str("T")) @@ Field("Year", NumberValueText(g.number))
                @@ Field("Cited by", NumberValueText(g.number))>>

NoOutput == [acc |-> "none", idx |-> 0, val |-> None]

Init ==
  /\ given \in Givens
  /\ adapter = given.adapter
  /\ file = FileOf(given)
  /\ pc = "parsed"
  /\ docs = None
  /\ out = NoOutput

Load_bibtex ==
  /\ pc = "parsed" /\ adapter = "bibtex"
  /\ docs' = load_bibtex(file)
  /\ pc' = "loaded"
  /\ UNCHANGED <<given, adapter, file, out>>

Load_scopus_csv ==
  /\ pc = "parsed" /\ adapter = "scopus"
  /\ docs' = load_scopus_csv(file)
  /\ pc' = "loaded"
  /\ UNCHANGED <<given, adapter, file, out>>

Load_springer_csv ==
  /\ pc = "parsed" /\ adapter = "springer"
  /\ docs' = load_springer_csv(file)
  /\ pc' = "loaded"
  /\ UNCHANGED <<given, adapter, file, out>>

\* Each accessor is read on any document of the loaded collection; `out` holds
\* what the last read returned or raised.
Read_BibDocument_authors ==
  /\ pc = "loaded" /\ adapter = "bibtex" /\ IsList(docs)
  /\ \E i \in 1..Len(docs.list) :
       out' = [acc |-> "authors", idx |-> i,
               val |-> BibDocument_authors(docs.list[i].entry)]
  /\ UNCHANGED <<given, adapter, file, pc, docs>>

Read_BibDocument_publication_year ==
  /\ pc = "loaded" /\ adapter = "bibtex" /\ IsList(docs)
  /\ \E i \in 1..Len(docs.list) :
       out' = [acc |-> "publication_year", idx |-> i,
               val |-> BibDocument_publication_year(docs.list[i].entry)]
  /\ UNCHANGED <<given, adapter, file, pc, docs>>

Read_BibDocument_publication_month ==
  /\ pc = "loaded" /\ adapter = "bibtex" /\ IsList(docs)
  /\ \E i \in 1..Len(docs.list) :
       out' = [acc |-> "publication_month", idx |-> i,
               val |-> BibDocument_publication_month(docs.list[i].entry)]
  /\ UNCHANGED <<given, adapter, file, pc, docs>>

Read_BibDocument_publication_date ==
  /\ pc = "loaded" /\ adapter = "bibtex" /\ IsList(docs)
  /\ \E i \in 1..Len(docs.list) :
       out' = [acc |-> "publication_date", idx |-> i,
               val |-> BibDocument_publication_date(docs.list[i].entry)]
  /\ UNCHANGED <<given, adapter, file, pc, docs>>

Read_BibDocument_keywords ==
  /\ pc = "loaded" /\ adapter = "bibtex" /\ IsList(docs)
  /\ \E i \in 1..Len(docs.list) :
       out' = [acc |-> "keywords", idx |-> i,
               val |-> BibDocument_keywords(docs.list[i].entry)]
  /\ UNCHANGED <<given, adapter, file, pc, docs>>

Read_ScopusCsvDocument_authors ==
  /\ pc = "loaded" /\ adapter = "scopus" /\ IsList(docs)
  /\ \E i \in 1..Len(docs.list) :
       out' = [acc |-> "authors", idx |-> i,
               val |-> ScopusCsvDocument_authors(docs.list[i].entry)]
  /\ UNCHANGED <<given, adapter, file, pc, docs>>

Read_ScopusCsvDocument_publication_year ==
  /\ pc = "loaded" /\ adapter = "scopus" /\ IsList(docs)
  /\ \E i \in 1..Len(docs.list) :
       out' = [acc |-> "publication_year", idx |-> i,
               val |-> ScopusCsvDocument_publication_year(docs.list[i].entry)]
  /\ UNCHANGED <<given, adapter, file, pc, docs>>

Read_ScopusCsvDocument_citation_count ==
  /\ pc = "loaded" /\ adapter = "scopus" /\ IsList(docs)
  /\ \E i \in 1..Len(docs.list) :
       out' = [acc |-> "citation_count", idx |-> i,
               val |-> ScopusCsvDocument_citation_count(docs.list[i].entry)]
  /\ UNCHANGED <<given, adapter, file, pc, docs>>

Read_SpringerDocument_authors ==
  /\ pc = "loaded" /\ adapter = "springer" /\ IsList(docs)
  /\ \E i \in 1..Len(docs.list) :
       out' = [acc |-> "authors", idx |-> i,
               val |-> SpringerDocument_authors(docs.list[i].entry)]
  /\ UNCHANGED <<given, adapter, file, pc, docs>>

\* extract_author_names called on the Authors value of a document's raw entry.
Call_extract_author_names ==
  /\ pc = "loaded" /\ adapter = "springer" /\ IsList(docs)
  /\ \E i \in 1..Len(docs.list) :
       out' = [acc |-> "extract_author_names", idx |-> i,
               val |-> extract_author_names(Get(docs.list[i].entry, "Authors"))]
  /\ UNCHANGED <<given, adapter, file, pc, docs>>

\* Reading affiliations of every author of the list authors returned.
Read_SpringerAuthor_affiliations ==
  /\ pc = "loaded" /\ adapter = "springer"
  /\ out.acc = "authors" /\ IsList(out.val)
  /\ out' = [acc |-> "affiliations", idx |-> out.idx,
             val |-> List([j \in 1..Len(out.val.list) |->
                            [name |-> out.val.list[j].name,
                             affiliations |-> SpringerAuthor_affiliations(out.val.list[j])]])]
  /\ UNCHANGED <<given, adapter, file, pc, docs>>

Next ==
  \/ Load_bibtex
  \/ Load_scopus_csv
  \/ Load_springer_csv
  \/ Read_BibDocument_authors
  \/ Read_BibDocument_publication_year
  \/ Read_BibDocument_publication_month
  \/ Read_BibDocument_publication_date
  \/ Read_BibDocument_keywords
  \/ Read_ScopusCsvDocument_authors
  \/ Read_ScopusCsvDocument_publication_year
  \/ Read_ScopusCsvDocument_citation_count
  \/ Read_SpringerDocument_authors
  \/ Call_extract_author_names
  \/ Read_SpringerAuthor_affiliations

Spec == Init /\ [][Next]_vars

(***************************************************************************)
(* What the claims expect, stated from the description of the input.       *)
(***************************************************************************)
Loaded(kind) == pc = "loaded" /\ given.kind = kind
Returned(kind, want, acc) == Loaded(kind) /\ adapter = want /\ out.acc = acc
Initial(name) == SubSeq(name, 1, 1)
Indices(n) == [i \in 1..n |-> i]

\* ---- C1 ----------------------------------------------------------------
TitleBearing(i) == given.titles[i] \notin {Missing, None, Str("")}
TitleBearingIds == SelectSeq(Indices(Len(given.titles)), TitleBearing)

\* C1: for each of the three loaders the returned collection holds exactly the
\* entries whose title is present and non-empty, in input order.
C1_OnlyTitleBearingEntries ==
  Loaded("titles") =>
    /\ IsList(docs)
    /\ [j \in 1..Len(docs.list) |-> docs.list[j].entry["ID"]]
         = [j \in 1..Len(TitleBearingIds) |-> Num(TitleBearingIds[j])]

\* ---- C2 ----------------------------------------------------------------
\* A text holds a DOI: a registrant of 4 to 9 digits and a suffix of 5 or more
\* allowed characters (the texts end the suffix with a space or the end).
HoldsDoi(t) == t # Missing /\ Len(t.reg) \in 4..9 /\ Len(t.suf) >= 5
FirstDoi(texts) ==
  IF \E i \in 1..Len(texts) : HoldsDoi(texts[i])
  THEN LET i == CHOOSE x \in 1..Len(texts) :
                  HoldsDoi(texts[x]) /\ \A y \in 1..(x - 1) : ~HoldsDoi(texts[y])
       IN Str("10." \o texts[i].reg \o "/" \o texts[i].suf)
  ELSE None
ScannedDoi == FirstDoi(<<given.link, given.url, given.howpublished>>)
FoundDoi == docs.list[1].identifier.doi

\* C2 as amended: find_doi returns the doi field trimmed of surrounding white
\* space when the trimmed value is non-empty, and otherwise the first match in
\* link, url, howpublished, in that order; a leading https://doi.org/ is
\* stripped; with no value in any field there is no DOI.
C2_FindDoi ==
  Loaded("doi") =>
    FoundDoi = IF given.doi # Missing /\ given.doi.core # ""
               THEN Str(given.doi.core)
               ELSE ScannedDoi

C2_FindDoi_Witness ==
  /\ Loaded("doi")
  /\ given.doi # Missing /\ given.doi.lpad = " " /\ given.doi.core = ""
  /\ given.link # Missing /\ ~HoldsDoi(given.link)
  /\ given.url # Missing /\ given.url.pre = DoiPrefix /\ HoldsDoi(given.url)
  /\ FoundDoi = Str("10.123456789/a(b)-c_d")

\* C2 as claimed: the doi field itself is returned whenever it is non-empty
\* (less a leading https://doi.org/).
C2_FindDoi_AsClaimed ==
  Loaded("doi") =>
    FoundDoi = IF given.doi # Missing /\ DoiFieldText(given.doi) # ""
               THEN Str(IF given.doi.lpad = "" THEN given.doi.core \o given.doi.rpad
                        ELSE DoiFieldText(given.doi))
               ELSE ScannedDoi

\* ---- C3 ----------------------------------------------------------------
LastFirstInitial(person) == person.last \o ", " \o Initial(person.first) \o "."
AllGlued(glue) == \A i \in 1..Len(given.people) : given.people[i].glue = glue

\* C3 as amended: extract_author_names, given the names of k people, each the
\* capitalized first name, one space and the capitalized last name, put one
\* after the other with nothing between them ("John SmithJane Doe"), returns
\* exactly k names in input order, the i-th being "<Last_i>, <initial of First_i>.".
C3_ExtractAuthorNames ==
  (Returned("people", "springer", "extract_author_names") /\ AllGlued(" ")) =>
    out.val = List([i \in 1..Len(given.people) |-> LastFirstInitial(given.people[i])])

C3_ExtractAuthorNames_Witness ==
  /\ Returned("people", "springer", "extract_author_names")
  /\ PeopleText(given.people) = "John SmithJane Doe"
  /\ out.val = List(<<"Smith, J.", "Doe, J.">>)

\* C3 as claimed: the same result for the delimiter-free concatenation of the
\* first and last names ("JohnSmithJaneDoe").
C3_ExtractAuthorNames_AsClaimed ==
  (Returned("people", "springer", "extract_author_names") /\ AllGlued("")) =>
    out.val = List([i \in 1..Len(given.people) |-> LastFirstInitial(given.people[i])])

\* ---- C4 ----------------------------------------------------------------
\* The names the Authors value parses to: "Last, F." for a person written with a
\* space, the two words as they are for a person written without.
RECURSIVE ParsedNames(_)
ParsedNames(people) ==
  IF people = <<>> THEN <<>>
  ELSE (IF people[1].glue = " " THEN <<LastFirstInitial(people[1])>>
        ELSE <<people[1].first, people[1].last>>) \o ParsedNames(Tail(people))

\* The tokens of the Author Affiliations value when `sep` separates tokens.
AffiliationTokens(sep) ==
  IF given.affs = Missing THEN <<"">>
  ELSE IF given.affs.sep = sep THEN given.affs.tokens
  ELSE <<JoinWith(given.affs.tokens, given.affs.sep)>>
Carried(token) == IF token \in {"", "NA"} THEN None ELSE List(<<token>>)

\* The record has its title column and a string (or no) affiliations value.
WellFormedRecord == given.title # Missing /\ given.affs # None

AffiliationsAsStated(names, tokens) ==
  /\ Returned("people", "springer", "authors") =>
       /\ IsList(out.val)
       /\ [i \in 1..Len(out.val.list) |-> out.val.list[i].name] = names
       /\ Len(names) # Len(tokens) =>
            \A i \in 1..Len(names) : out.val.list[i].affiliation = None
  /\ Returned("people", "springer", "affiliations") =>
       out.val = List([i \in 1..Len(names) |->
                   [name |-> names[i],
                    affiliations |-> IF Len(names) = Len(tokens)
                                     THEN Carried(tokens[i]) ELSE None]])

LastInitial(parts) ==
  IF Len(parts) > 1 THEN parts[1] \o ", " \o Initial(parts[2]) \o "." ELSE parts[1]
\* The same followed by the parts between the second and the last, run together.
LastInitialMiddle(parts) ==
  IF Len(parts) > 1
  THEN LastInitial(parts) \o JoinWith(SubSeq(parts, 3, Len(parts) - 1), "")
  ELSE parts[1]
\* The separators of the field, the one before "others" included.
SeparatorsUsed ==
  {given.seps[i] : i \in 1..Len(given.seps)}
  \cup (IF given.others = Missing THEN {} ELSE {given.others.str})
\* The word `and` written and, And or AND, between white space.
ThreeCasings == {" and ", " AND ", "\n And  "}

\* C5 as amended: for an author field of names joined by the separator written
\* `and`, `And` or `AND` (optionally ending in the token `others`),
\* BibDocument.authors yields one author per name in input order with the
\* trailing `others` dropped; a name of parts joined by ", " ("Last, First ...")
\* is rendered "Last, F." followed by the parts between the second and the last
\* run together (nothing for up to three parts), and a name without ", " is
\* passed through.
C5_BibAuthors ==
  (Returned("author", "bibtex", "authors") /\ SeparatorsUsed \subseteq ThreeCasings) =>
    out.val = List([i \in 1..Len(given.names) |-> LastInitialMiddle(given.names[i])])

C5_BibAuthors_Witness ==
  /\ Returned("author", "bibtex", "authors")
  /\ AuthorFieldText(given) = "Smith, John AND Doe, Jane, Q and others"
  /\ out.val = List(<<"Smith, J.", "Doe, J.">>)

\* C5 as claimed: the separator `and` in any letter case, and every name with a
\* comma rendered with the first initial only.
C5_BibAuthors_AsClaimed ==
  Returned("author", "bibtex", "authors") =>
    out.val = List([i \in 1..Len(given.names) |-> LastInitial(given.names[i])])

\* ---- C6 ----------------------------------------------------------------
NumberOrAbsent(x) ==
  IF x \notin {Missing, None} /\ IsNumber(x) THEN Num(NumberValue(x)) ELSE None

\* C6: publication_year and citation_count of a Scopus record return the integer
\* of their field when it parses as one, and absent, raising nothing, when the
\* field is missing, empty or not numeric.
C6_ScopusNumbers ==
  (Loaded("number") /\ adapter = "scopus"
     /\ out.acc \in {"publication_year", "citation_count"}) =>
    out.val = NumberOrAbsent(given.number)

\* ---- C7 ----------------------------------------------------------------
\* C7: reading authors of a record whose raw author field is missing or empty
\* raises nothing and yields an absent or empty author list.
C7_NoAuthorsNoException ==
  (Loaded("rawauthors") /\ out.acc = "authors"
     /\ given.authors \in {Missing, None, Str("")}) =>
    out.val \in {None, List(<<>>)}

\* ---- C8 ----------------------------------------------------------------
KeptKeywords ==
  SelectSeq([i \in 1..Len(given.tokens) |-> given.tokens[i].norm], LAMBDA w : w # "")

\* C8: for a non-empty keywords field BibDocument.keywords returns the tokens
\* between `;`, `,` and newlines, trimmed and lowercased, in input order, and no
\* empty string is among them.
C8_KeywordsNoEmptyString ==
  (Returned("keywords", "bibtex", "keywords") /\ given.present /\ KeywordText(given) # "") =>
    out.val = List(KeptKeywords)

\* ---- C9 ----------------------------------------------------------------
MonthNumber(m) ==
  IF m = Missing THEN None
  ELSE CASE m.form \in {"full", "abbr"} -> Num(m.index)
         [] m.form = "misspelt" -> Num(2)
         [] m.form = "other" -> None

\* C9: publication_month returns, in any letter case, the number of the month
\* for an English month name or its abbreviation (and 2 for "feburary"), and
\* absent for any other value or a missing field.
C9_MonthNumbers ==
  Returned("month", "bibtex", "publication_month") => out.val = MonthNumber(given.month)

\* ---- C10 ---------------------------------------------------------------
YearOf(x) ==
  IF x # Missing /\ IsNumber(x)
  THEN Num(IF NumberValue(x) < 100 THEN 1900 + NumberValue(x) ELSE NumberValue(x))
  ELSE None

\* C10: for any value of the year field publication_year and publication_date
\* raise nothing: both are absent when the value is no integer; for the integer
\* n publication_year is 1900 + n if n < 100 and n otherwise, and
\* publication_date is day 1 of publication_month (January when absent) of that
\* year.
C10_YearAndDate ==
  /\ Returned("number", "bibtex", "publication_year") => out.val = YearOf(given.number)
  /\ Returned("number", "bibtex", "publication_date") =>
       out.val = IF YearOf(given.number) = None THEN None
                 ELSE Date(YearOf(given.number).int,
                           IF MonthNumber(given.month) = None THEN 1
                           ELSE MonthNumber(given.month).int,
                           1)

====
